---- MODULE Spec2Model ----
(***************************************************************************)
(* State-machine model of raptic.py: the RAPTIC menu controller, its       *)
(* configuration store (a ConfigParser with the single section `general`)  *)
(* and the process launcher.  Every blocking dialog call is a control      *)
(* position; an action is the user's answer to the dialog on screen plus   *)
(* the code that runs until the next dialog, child process or exit.        *)
(***************************************************************************)
EXTENDS Integers, Sequences, FiniteSets, TLC

VARIABLES
    pc,              \* control position: the dialog on screen, "child", "exited"
    idx,             \* __first_start: index of the option being prompted for
    config,          \* self.config, the committed configuration
    config_path,     \* self.__config_path, the save target
    files,           \* the two candidate files on disk
    fsState,         \* what open(config_path, 'w') does: "ok", "ENOENT", "EACCES"
    config_tmp,      \* __config_edit: the scratch copy
    config_changed,  \* __config_edit: the dirty flag
    reply,           \* the last dialog whose result is read, with its (code, value)
    child,           \* command line of the running child process, <<>> when none
    exitCode,        \* process exit status, -1 while running
    exc              \* uncaught exception that ended the process, "" when none

vars == <<pc, idx, config, config_path, files, fsState, config_tmp,
          config_changed, reply, child, exitCode, exc>>

----------------------------------------------------------------------------
(* Bounds *)

\* number of distinct non-empty strings the user may type into an input box
MaxNames == 1

NamePool == <<"bob", "carol", "dave">>

\* a typed name with a leading blank, and a text with a bare percent sign
PaddedValue == " bob"

PercentValue == "50%"

\* what an inputbox can return on OK: the empty string, a typed name, a name
\* typed after a blank, or a text with a percent sign
TypedValues ==
    {""} \cup {NamePool[i] : i \in 1..MaxNames} \cup {PaddedValue, PercentValue}

\* ConfigParser's set() hands the value to BasicInterpolation.before_set, which
\* raises ValueError for a bare '%'
ValidValue(v) == v # PercentValue

\* ConfigParser's read() strips the blanks around a value
Strip(v) == IF v = PaddedValue THEN "bob" ELSE v

----------------------------------------------------------------------------
(* Option schema and configuration values *)

Absent == "<absent>"

Keys == {"server", "user", "fullscreen"}

configuration_options == <<
    [label |-> "Server",     name |-> "server",     option_type |-> "str",
     default |-> "",    required |-> TRUE],
    [label |-> "Username",   name |-> "user",       option_type |-> "str",
     default |-> "",    required |-> TRUE],
    [label |-> "Fullscreen", name |-> "fullscreen", option_type |-> "bool",
     default |-> "yes", required |-> FALSE] >>

NumOptions == Len(configuration_options)

Labels == {configuration_options[i].label : i \in 1..NumOptions}

OptionByLabel(l) ==
    CHOOSE o \in {configuration_options[i] : i \in 1..NumOptions} : o.label = l

NoKeys == [k \in Keys |-> Absent]

\* ConfigParser(): no section at all
EmptyConfig == [sections |-> {}, general |-> NoKeys]

\* config.sections()
Sections(cfg) == cfg.sections

HasOption(cfg, k) == "general" \in cfg.sections /\ cfg.general[k] # Absent

\* config['general'] = {}
ResetGeneral(cfg) ==
    [sections |-> cfg.sections \cup {"general"}, general |-> NoKeys]

\* config['general'][k] = v   (the section exists)
SetOption(cfg, k, v) == [cfg EXCEPT !.general[k] = v]

\* dst.update(src): every section of src replaces the section of that name
Update(dst, src) ==
    [sections |-> dst.sections \cup src.sections,
     general  |-> IF "general" \in src.sections THEN src.general ELSE dst.general]

\* ConfigParser.BOOLEAN_STATES as used by getboolean(); "error" is ValueError
GetBoolean(v) ==
    IF v \in {"1", "yes", "true", "on"} THEN "true"
    ELSE IF v \in {"0", "no", "false", "off"} THEN "false"
    ELSE "error"

----------------------------------------------------------------------------
(* Files *)

Paths == <<"~/.raptic", "~/.config/raptic">>

PathSet == {Paths[i] : i \in 1..Len(Paths)}

NoFile == [exists |-> FALSE, cfg |-> EmptyConfig]

\* config.write(f): every section with its `key = value` lines, values as stored
FileOf(cfg) == [exists |-> TRUE, cfg |-> cfg]

\* contents a configuration file may have when the program starts
GeneralContents ==
    { [sections |-> {"general"},
       general  |-> [k \in Keys |-> CASE k = "server" -> s
                                      [] k = "user" -> u
                                      [] OTHER -> f]] :
        s \in {Absent, "10.0.0.5"}, u \in {Absent, "alice"},
        f \in {Absent, "yes", "no", "on", "maybe"} }

FileContents ==
    GeneralContents \cup {EmptyConfig, [sections |-> {"other"}, general |-> NoKeys]}

\* the content of the candidate that is not loaded matters only by being different
AltContent ==
    [sections |-> {"general"},
     general  |-> [k \in Keys |-> CASE k = "server" -> "10.0.0.5"
                                    [] k = "user" -> "alice"
                                    [] OTHER -> "no"]]

InitFiles ==
    { [p \in PathSet |-> IF p = Paths[1] THEN FileOf(c) ELSE a] :
        c \in FileContents, a \in {NoFile, FileOf(AltContent)} }
    \cup
    { [p \in PathSet |-> IF p = Paths[1] THEN NoFile ELSE b] :
        b \in {NoFile} \cup {FileOf(c) : c \in FileContents} }

\* a scan in which the last existing candidate wins
FirstExisting_LastWins(fs, i) ==
    IF fs[Paths[2]].exists THEN 2
    ELSE IF fs[Paths[1]].exists THEN 1
    ELSE 0

\* __read_config: index of the first candidate that exists, 0 when none does
RECURSIVE FirstExisting(_, _)
FirstExisting(fs, i) ==
    IF i > Len(Paths) THEN 0
    ELSE IF fs[Paths[i]].exists THEN i
    ELSE FirstExisting(fs, i + 1)

\* a fallback to the last candidate path instead of '~/.raptic'
ReadConfigPath_DefaultLast(fs) ==
    IF FirstExisting(fs, 1) = 0 THEN Paths[Len(Paths)] ELSE Paths[FirstExisting(fs, 1)]

ReadConfigPath(fs) ==
    IF FirstExisting(fs, 1) = 0 THEN Paths[1] ELSE Paths[FirstExisting(fs, 1)]

\* config.read(filename): the sections and keys of the file, values stripped
Parse(text) ==
    [sections |-> text.sections,
     general  |-> [k \in Keys |-> Strip(text.general[k])]]

ReadConfig(fs) ==
    IF FirstExisting(fs, 1) = 0 THEN EmptyConfig
    ELSE Parse(fs[Paths[FirstExisting(fs, 1)]].cfg)

----------------------------------------------------------------------------
(* Initial state: after RAPTIC() has run __read_config *)

Answer(d, c, v) == [dialog |-> d, code |-> c, value |-> v]

NoReply == Answer("none", "none", "")

Init ==
    /\ files \in InitFiles
    /\ config = ReadConfig(files)
    /\ config_path = ReadConfigPath(files)
    /\ fsState \in {"ok", "ENOENT", "EACCES"}
    /\ files[config_path].exists => fsState # "ENOENT"
    /\ pc = "run"
    /\ idx = 0
    /\ config_tmp = EmptyConfig
    /\ config_changed = FALSE
    /\ reply = NoReply
    /\ child = <<>>
    /\ exitCode = -1
    /\ exc = ""

----------------------------------------------------------------------------
(* Process termination *)

\* RAPTIC.exit(code): clear the screen and exit with the given status
Exit(code) == pc' = "exited" /\ exitCode' = code /\ exc' = ""

\* an exception nobody catches: traceback, interpreter exits with status 1
Raise(e) == pc' = "exited" /\ exitCode' = 1 /\ exc' = e

Running == UNCHANGED <<exitCode, exc>>

----------------------------------------------------------------------------
(* __config_save *)

\* the exception open(config_path, 'w') raises, "" when it succeeds
OpenError ==
    CASE fsState = "ENOENT" -> "FileNotFoundError"
      [] fsState = "EACCES" -> "PermissionError"
      [] OTHER -> ""

\* with open(path, 'w') as f: config.write(f)
ConfigSave(cfg) == [files EXCEPT ![config_path] = FileOf(cfg)]

----------------------------------------------------------------------------
(* run and __first_start *)

\* a run that gates the first start on the keys of `general`, not on sections()
Run_GateOnKeys ==
    /\ pc = "run"
    /\ pc' = IF \A k \in Keys : ~HasOption(config, k) THEN "first_welcome" ELSE "menu"
    /\ UNCHANGED <<idx, config, config_path, files, fsState, config_tmp,
                   config_changed, reply, child, exitCode, exc>>

Run ==
    /\ pc = "run"
    /\ pc' = IF Sections(config) = {} THEN "first_welcome" ELSE "menu"
    /\ UNCHANGED <<idx, config, config_path, files, fsState, config_tmp,
                   config_changed, reply, child, exitCode, exc>>

\* a loop that skips an option that is not required without storing its default
NextPrompt_NoDefault(cfg, i) ==
    IF i > NumOptions THEN [cfg |-> cfg, idx |-> i]
    ELSE IF configuration_options[i].required THEN [cfg |-> cfg, idx |-> i]
    ELSE [cfg |-> cfg, idx |-> i + 1]

\* the for loop from option i on, up to the next inputbox or the end of the
\* loop: options that are not required take their default without a prompt
RECURSIVE NextPrompt(_, _)
NextPrompt(cfg, i) ==
    IF i > NumOptions THEN [cfg |-> cfg, idx |-> i]
    ELSE IF configuration_options[i].required THEN [cfg |-> cfg, idx |-> i]
    ELSE NextPrompt(SetOption(cfg, configuration_options[i].name,
                              configuration_options[i].default), i + 1)

\* try: __config_save() ... except FileNotFoundError
FirstStartSave(cfg) ==
    /\ config' = cfg
    /\ CASE OpenError = "" ->
              /\ files' = ConfigSave(cfg)
              /\ pc' = "first_written_msg"
              /\ Running
         [] OpenError = "FileNotFoundError" ->
              /\ pc' = "first_not_writeable_msg"
              /\ UNCHANGED files
              /\ Running
         [] OTHER ->
              /\ Raise(OpenError)
              /\ UNCHANGED files

FirstStartLoop(cfg, i) ==
    LET np == NextPrompt(cfg, i) IN
    /\ idx' = np.idx
    /\ IF np.idx <= NumOptions
       THEN /\ pc' = "first_input"
            /\ config' = np.cfg
            /\ UNCHANGED files
            /\ Running
       ELSE FirstStartSave(np.cfg)

\* the welcome msgbox is acknowledged: config['general'] = {}, then the loop
FirstWelcomeAck ==
    /\ pc = "first_welcome"
    /\ FirstStartLoop(ResetGeneral(config), 1)
    /\ UNCHANGED <<config_path, fsState, config_tmp, config_changed, reply, child>>

\* inputbox returns OK with the typed value
FirstInputOK ==
    /\ pc = "first_input"
    /\ \E v \in TypedValues :
         /\ reply' = Answer("inputbox", "OK", v)
         /\ IF ValidValue(v)
            THEN FirstStartLoop(SetOption(config, configuration_options[idx].name, v),
                                idx + 1)
            ELSE Raise("ValueError") /\ UNCHANGED <<idx, config, files>>
    /\ UNCHANGED <<config_path, fsState, config_tmp, config_changed, child>>

\* inputbox returns CANCEL or ESC (with no text): the abort msgbox is shown
FirstInputCancel ==
    /\ pc = "first_input"
    /\ \E c \in {"CANCEL", "ESC"} : reply' = Answer("inputbox", c, "")
    /\ pc' = "first_aborted_msg"
    /\ UNCHANGED <<idx, config, config_path, files, fsState, config_tmp,
                   config_changed, child, exitCode, exc>>

\* an abort path that goes on to the next option without storing a value
FirstAbortedAck_Skip ==
    /\ pc = "first_aborted_msg"
    /\ FirstStartLoop(config, idx + 1)
    /\ UNCHANGED <<config_path, fsState, config_tmp, config_changed, reply, child>>

\* the abort msgbox is acknowledged: execution falls through to line 69
FirstAbortedAck ==
    /\ pc = "first_aborted_msg"
    /\ FirstStartLoop(SetOption(config, configuration_options[idx].name,
                                reply.value), idx + 1)
    /\ UNCHANGED <<config_path, fsState, config_tmp, config_changed, reply, child>>

FirstWrittenAck ==
    /\ pc = "first_written_msg"
    /\ pc' = "menu"
    /\ UNCHANGED <<idx, config, config_path, files, fsState, config_tmp,
                   config_changed, reply, child, exitCode, exc>>

FirstNotWriteableAck ==
    /\ pc = "first_not_writeable_msg"
    /\ Exit(1)
    /\ UNCHANGED <<idx, config, config_path, files, fsState, config_tmp,
                   config_changed, reply, child>>

----------------------------------------------------------------------------
(* __menu, __rdesktop_start, __desktop_environment_start *)

RdesktopPath == "/usr/bin/rdesktop"

\* a format call with the user and server arguments exchanged
Command_Swapped(rdesktop, cfg) ==
    <<"xinit", rdesktop, "-u", cfg.general["server"], cfg.general["user"],
      IF GetBoolean(cfg.general["fullscreen"]) = "true" THEN "-f" ELSE "">>

\* 'xinit {rdesktop} -u {user} {server} {fullscreen}'.format(...)
Command(rdesktop, cfg) ==
    <<"xinit", rdesktop, "-u", cfg.general["user"], cfg.general["server"],
      IF GetBoolean(cfg.general["fullscreen"]) = "true" THEN "-f" ELSE "">>

\* the exception raised while the format arguments are evaluated, "" when none
CommandError(cfg) ==
    CASE "general" \notin Sections(cfg) -> "NoSectionError"
      [] ~HasOption(cfg, "user") -> "NoOptionError"
      [] ~HasOption(cfg, "server") -> "NoOptionError"
      [] ~HasOption(cfg, "fullscreen") -> "NoOptionError"
      [] GetBoolean(cfg.general["fullscreen"]) = "error" -> "ValueError"
      [] OTHER -> ""

\* a menu whose cancel path exits like the 'x' entry
MenuCancel_ExitZero ==
    /\ pc = "menu"
    /\ \E c \in {"CANCEL", "ESC"} : reply' = Answer("menu", c, "")
    /\ Exit(0)
    /\ UNCHANGED <<idx, config, config_path, files, fsState, config_tmp,
                   config_changed, child>>

\* the menu is left without OK: exit(1)
MenuCancel ==
    /\ pc = "menu"
    /\ \E c \in {"CANCEL", "ESC"} : reply' = Answer("menu", c, "")
    /\ Exit(1)
    /\ UNCHANGED <<idx, config, config_path, files, fsState, config_tmp,
                   config_changed, child>>

\* tag 'x': __menu returns False and run calls exit(0)
MenuExit ==
    /\ pc = "menu"
    /\ reply' = Answer("menu", "OK", "x")
    /\ Exit(0)
    /\ UNCHANGED <<idx, config, config_path, files, fsState, config_tmp,
                   config_changed, child>>

\* tag '1': __rdesktop_start
MenuRdesktop ==
    /\ pc = "menu"
    /\ reply' = Answer("menu", "OK", "1")
    /\ \E found \in BOOLEAN :
         IF ~found
         THEN /\ pc' = "rdesktop_missing_msg"
              /\ UNCHANGED child
              /\ Running
         ELSE IF CommandError(config) # ""
         THEN /\ Raise(CommandError(config))
              /\ UNCHANGED child
         ELSE /\ child' = Command(RdesktopPath, config)
              /\ pc' = "child"
              /\ Running
    /\ UNCHANGED <<idx, config, config_path, files, fsState, config_tmp,
                   config_changed>>

RdesktopMissingAck ==
    /\ pc = "rdesktop_missing_msg"
    /\ Exit(1)
    /\ UNCHANGED <<idx, config, config_path, files, fsState, config_tmp,
                   config_changed, reply, child>>

\* a launch that does not wait for the child
MenuDesktop_NoWait ==
    /\ pc = "menu"
    /\ reply' = Answer("menu", "OK", "3")
    /\ child' = <<"startx">>
    /\ pc' = "menu"
    /\ UNCHANGED <<idx, config, config_path, files, fsState, config_tmp,
                   config_changed, exitCode, exc>>

\* tag '3': __desktop_environment_start
MenuDesktop ==
    /\ pc = "menu"
    /\ reply' = Answer("menu", "OK", "3")
    /\ child' = <<"startx">>
    /\ pc' = "child"
    /\ UNCHANGED <<idx, config, config_path, files, fsState, config_tmp,
                   config_changed, exitCode, exc>>

ChildStatuses == {0, 1}

\* call() returns when the child has exited; its status is dropped
ChildExit ==
    /\ pc = "child"
    /\ \E status \in ChildStatuses :
         /\ child' = <<>>
         /\ pc' = "menu"
    /\ UNCHANGED <<idx, config, config_path, files, fsState, config_tmp,
                   config_changed, reply, exitCode, exc>>

----------------------------------------------------------------------------
(* __config_edit *)

\* top of the while loop: the menu choices read every option of the scratch copy
EditLoop(tmp) ==
    IF \A k \in Keys : HasOption(tmp, k)
    THEN pc' = "edit_menu" /\ Running
    ELSE Raise("KeyError")

\* tag '2': the scratch copy is seeded and the edit menu is shown
MenuEdit ==
    /\ pc = "menu"
    /\ reply' = Answer("menu", "OK", "2")
    /\ config_changed' = FALSE
    /\ config_tmp' = Update(EmptyConfig, config)
    /\ EditLoop(config_tmp')
    /\ UNCHANGED <<idx, config, config_path, files, fsState, child>>

\* BACK
EditMenuCancel ==
    /\ pc = "edit_menu"
    /\ reply' = Answer("edit_menu", "CANCEL", "")
    /\ pc' = IF config_changed THEN "edit_yesno" ELSE "menu"
    /\ UNCHANGED <<idx, config, config_path, files, fsState, config_tmp,
                   config_changed, child, exitCode, exc>>

\* ESC matches none of the three tests: the loop shows the menu again
EditMenuEsc ==
    /\ pc = "edit_menu"
    /\ reply' = Answer("edit_menu", "ESC", "")
    /\ EditLoop(config_tmp)
    /\ UNCHANGED <<idx, config, config_path, files, fsState, config_tmp,
                   config_changed, child>>

\* a confirmed discard that writes the scratch copy to the file
EditYesnoOK_Saves ==
    /\ pc = "edit_yesno"
    /\ reply' = Answer("yesno", "OK", "")
    /\ pc' = "menu"
    /\ files' = ConfigSave(config_tmp)
    /\ UNCHANGED <<idx, config, config_path, fsState, config_tmp,
                   config_changed, child, exitCode, exc>>

\* the discard question is answered yes: return
EditYesnoOK ==
    /\ pc = "edit_yesno"
    /\ reply' = Answer("yesno", "OK", "")
    /\ pc' = "menu"
    /\ UNCHANGED <<idx, config, config_path, files, fsState, config_tmp,
                   config_changed, child, exitCode, exc>>

\* the discard question is answered no: back to the top of the loop
EditYesnoNo ==
    /\ pc = "edit_yesno"
    /\ \E c \in {"CANCEL", "ESC"} : reply' = Answer("yesno", c, "")
    /\ EditLoop(config_tmp)
    /\ UNCHANGED <<idx, config, config_path, files, fsState, config_tmp,
                   config_changed, child>>

\* CHANGE on an option: the radiolist or the inputbox is shown
EditMenuChange ==
    /\ pc = "edit_menu"
    /\ \E l \in Labels :
         /\ reply' = Answer("edit_menu", "OK", l)
         /\ IF /\ OptionByLabel(l).option_type = "bool"
               /\ GetBoolean(config_tmp.general[OptionByLabel(l).name]) = "error"
            THEN Raise("ValueError")
            ELSE pc' = "edit_prompt" /\ Running
    /\ UNCHANGED <<idx, config, config_path, files, fsState, config_tmp,
                   config_changed, child>>

\* what the prompt of option o can return on OK
PromptValues(o, tmp) ==
    IF o.option_type = "bool" THEN {"yes", "no"}
    ELSE TypedValues \cup {tmp.general[o.name]}

\* an editor whose scratch copy is the committed object itself
EditPromptOK_Aliased ==
    /\ pc = "edit_prompt"
    /\ LET option == OptionByLabel(reply.value) IN
       \E v \in PromptValues(option, config_tmp) :
         /\ reply' = Answer("prompt", "OK", v)
         /\ config_changed' = TRUE
         /\ IF ValidValue(v)
            THEN /\ config_tmp' = SetOption(config_tmp, option.name, v)
                 /\ config' = SetOption(config, option.name, v)
                 /\ EditLoop(config_tmp')
            ELSE Raise("ValueError") /\ UNCHANGED <<config_tmp, config>>
    /\ UNCHANGED <<idx, config_path, files, fsState, child>>

\* the per-option prompt is confirmed
EditPromptOK ==
    /\ pc = "edit_prompt"
    /\ LET option == OptionByLabel(reply.value) IN
       \E v \in PromptValues(option, config_tmp) :
         /\ reply' = Answer("prompt", "OK", v)
         /\ config_changed' = TRUE
         /\ IF ValidValue(v)
            THEN /\ config_tmp' = SetOption(config_tmp, option.name, v)
                 /\ EditLoop(config_tmp')
            ELSE Raise("ValueError") /\ UNCHANGED config_tmp
    /\ UNCHANGED <<idx, config, config_path, files, fsState, child>>

\* the per-option prompt is cancelled
EditPromptCancel ==
    /\ pc = "edit_prompt"
    /\ \E c \in {"CANCEL", "ESC"} : reply' = Answer("prompt", c, "")
    /\ EditLoop(config_tmp)
    /\ UNCHANGED <<idx, config, config_path, files, fsState, config_tmp,
                   config_changed, child>>

\* a SAVE that commits the scratch copy only once the file has been written
EditMenuSave_CommitAfterWrite ==
    /\ pc = "edit_menu"
    /\ reply' = Answer("edit_menu", "EXTRA", "")
    /\ config' = IF OpenError = "" THEN Update(config, config_tmp) ELSE config
    /\ CASE OpenError = "" ->
              /\ files' = ConfigSave(config')
              /\ pc' = "edit_saved_msg"
              /\ Running
         [] OpenError = "FileNotFoundError" ->
              /\ pc' = "edit_not_writeable_msg"
              /\ UNCHANGED files
              /\ Running
         [] OTHER ->
              /\ Raise(OpenError)
              /\ UNCHANGED files
    /\ UNCHANGED <<idx, config_path, fsState, config_tmp, config_changed, child>>

\* SAVE: config.update(config_tmp), then try __config_save()
EditMenuSave ==
    /\ pc = "edit_menu"
    /\ reply' = Answer("edit_menu", "EXTRA", "")
    /\ config' = Update(config, config_tmp)
    /\ CASE OpenError = "" ->
              /\ files' = ConfigSave(config')
              /\ pc' = "edit_saved_msg"
              /\ Running
         [] OpenError = "FileNotFoundError" ->
              /\ pc' = "edit_not_writeable_msg"
              /\ UNCHANGED files
              /\ Running
         [] OTHER ->
              /\ Raise(OpenError)
              /\ UNCHANGED files
    /\ UNCHANGED <<idx, config_path, fsState, config_tmp, config_changed, child>>

EditSavedAck ==
    /\ pc = "edit_saved_msg"
    /\ pc' = "menu"
    /\ UNCHANGED <<idx, config, config_path, files, fsState, config_tmp,
                   config_changed, reply, child, exitCode, exc>>

EditNotWriteableAck ==
    /\ pc = "edit_not_writeable_msg"
    /\ pc' = "menu"
    /\ UNCHANGED <<idx, config, config_path, files, fsState, config_tmp,
                   config_changed, reply, child, exitCode, exc>>

----------------------------------------------------------------------------
(* The file system outside the program *)

\* somebody else changes the permissions of the save target or removes its
\* directory (and the files in it) while the program waits in a dialog or for
\* its child
EnvChange ==
    /\ pc \notin {"run", "exited"}
    /\ \E s \in {"ok", "ENOENT", "EACCES"} \ {fsState} :
         /\ fsState' = s
         /\ files' = IF s # "ENOENT" THEN files
                     ELSE [p \in PathSet |->
                             IF p = config_path \/ config_path = Paths[1]
                             THEN NoFile ELSE files[p]]
    /\ UNCHANGED <<pc, idx, config, config_path, config_tmp, config_changed,
                   reply, child, exitCode, exc>>

----------------------------------------------------------------------------

Next ==
    \/ Run
    \/ FirstWelcomeAck
    \/ FirstInputOK
    \/ FirstInputCancel
    \/ FirstAbortedAck
    \/ FirstWrittenAck
    \/ FirstNotWriteableAck
    \/ MenuCancel
    \/ MenuExit
    \/ MenuRdesktop
    \/ RdesktopMissingAck
    \/ MenuDesktop
    \/ ChildExit
    \/ MenuEdit
    \/ EditMenuCancel
    \/ EditMenuEsc
    \/ EditYesnoOK
    \/ EditYesnoNo
    \/ EditMenuChange
    \/ EditPromptOK
    \/ EditPromptCancel
    \/ EditMenuSave
    \/ EditSavedAck
    \/ EditNotWriteableAck
    \/ EnvChange

Spec == Init /\ [][Next]_vars

TypeOK ==
    /\ pc \in {"run", "first_welcome", "first_input", "first_aborted_msg",
               "first_written_msg", "first_not_writeable_msg", "menu",
               "rdesktop_missing_msg", "child", "edit_menu", "edit_yesno",
               "edit_prompt", "edit_saved_msg", "edit_not_writeable_msg", "exited"}
    /\ exitCode \in {-1, 0, 1}
    /\ config_changed \in BOOLEAN

----------------------------------------------------------------------------
(* Properties *)

EditPcs == {"edit_menu", "edit_yesno", "edit_prompt"}

FirstPcs == {"first_welcome", "first_input", "first_aborted_msg"}

SaveChosen == pc = "edit_menu" /\ reply' = Answer("edit_menu", "EXTRA", "")

\* C1: while the user is in ConfigEdit no step changes the committed
\* configuration -- not a confirmed option change, not BACK, not a declined or
\* confirmed discard -- except SAVE, which gives it the scratch values; seeding
\* the scratch copy on entry leaves it unchanged too.
C1_EditIsolation ==
    [][ /\ pc \in EditPcs =>
             IF SaveChosen
             THEN config'.general = config_tmp.general
             ELSE config' = config
        /\ (pc = "menu" /\ pc' \in EditPcs) =>
             config' = config /\ config_tmp'.general = config.general ]_vars

\* ConfigEdit was left by BACK with the discard confirmed, the scratch copy
\* differing from the committed configuration
C1_Witness ==
    /\ pc = "menu"
    /\ reply = Answer("yesno", "OK", "")
    /\ config_changed
    /\ config_tmp.general # config.general

\* C2: once the abort message of a cancelled first-run input is on screen, no
\* further option is prompted for and no save is attempted.
C2_CancelAbortsFirstRun ==
    [][ pc = "first_aborted_msg" =>
          /\ pc' \notin {"first_input", "first_written_msg", "first_not_writeable_msg"}
          /\ exc' = ""
          /\ (files'[config_path] = files[config_path] \/ ~files'[config_path].exists)
      ]_vars

\* C3: no failure of save() ends the process as an uncaught error.
C3_SaveFailureCaught ==
    ~(pc = "exited" /\ exc \in {"PermissionError", "FileNotFoundError"})

C5_EditSaveFailureNonFatal ==
    [][ /\ (SaveChosen /\ OpenError # "") =>
             /\ files' = files
             /\ pc' = "edit_not_writeable_msg"
        /\ (SaveChosen /\ OpenError = "") => pc' = "edit_saved_msg"
        /\ (pc \in {"edit_not_writeable_msg", "edit_saved_msg"} /\ pc' # pc) =>
             pc' = "menu" ]_vars

\* C6: the step of FirstRun that collects the last option ends with the
\* confirmation when save() succeeds and with the unwritable-path message when
\* it fails; the confirmation leads to MainMenu, the message to a non-zero exit.
C6_FirstRunEnds ==
    [][ /\ (pc \in FirstPcs /\ idx' > NumOptions /\ pc' # pc) =>
             pc' = IF OpenError = "" THEN "first_written_msg"
                   ELSE "first_not_writeable_msg"
        /\ (pc = "first_written_msg" /\ pc' # pc) => pc' = "menu"
        /\ (pc = "first_not_writeable_msg" /\ pc' # pc) =>
             pc' = "exited" /\ exitCode' # 0 ]_vars

\* C7: the process ends with status 0 exactly when "Exit" was chosen in the
\* main menu; every other end -- the first-run write failure, the missing
\* rdesktop, leaving the main menu without a selection -- has status 1.
C7_ExitCodes ==
    /\ pc = "exited" =>
         /\ exitCode \in {0, 1}
         /\ exitCode = 0 <=> (reply = Answer("menu", "OK", "x") /\ exc = "")
    /\ pc # "exited" => exitCode = -1

\* the main menu was left by cancel or escape and the process has ended
C7_Witness ==
    /\ pc = "exited"
    /\ exitCode = 1
    /\ reply.dialog = "menu"
    /\ reply.code \in {"CANCEL", "ESC"}

\* C8: with a `general` section that lacks a schema key, neither the edit menu
\* listing nor the command construction fails on the absent key.
C8_MissingKeysTolerated ==
    ~( /\ pc = "exited"
       /\ exc \in {"KeyError", "NoOptionError"}
       /\ "general" \in Sections(config)
       /\ \E k \in Keys : ~HasOption(config, k) )

\* C9: choosing Start ThinClient either shows the error message with no child
\* launched (rdesktop not found) or launches the child (rdesktop found); the
\* message leads to exit status 1, the child's end to MainMenu.
C9_StartThinClient ==
    [][ /\ (pc = "menu" /\ reply' = Answer("menu", "OK", "1")) =>
             \/ pc' = "rdesktop_missing_msg" /\ child' = <<>>
             \/ pc' = "child" /\ child' # <<>>
        /\ (pc = "rdesktop_missing_msg" /\ pc' # pc) =>
             pc' = "exited" /\ exitCode' = 1 /\ child' = <<>>
        /\ (pc = "child" /\ pc' # pc) => pc' = "menu" ]_vars

\* C10: a launched remote-desktop command line reads `-u <user> <server>` with
\* the committed user and server, followed by `-f` exactly when the committed
\* fullscreen value is true: present for `yes`, absent for `no`.
C10_LaunchArguments ==
    (pc = "child" /\ child[1] = "xinit") =>
        /\ Len(child) = 6
        /\ child[3] = "-u"
        /\ child[4] = config.general["user"]
        /\ child[5] = config.general["server"]
        /\ child[6] \in {"-f", ""}
        /\ child[6] = "-f" <=> config.general["fullscreen"] \in {"1", "yes", "true", "on"}
        /\ config.general["fullscreen"] = "no" => child[6] = ""

\* rdesktop was launched in fullscreen for a committed user and server
C10_Witness ==
    /\ pc = "child"
    /\ child = <<"xinit", RdesktopPath, "-u", "alice", "10.0.0.5", "-f">>
    /\ config.general["fullscreen"] = "yes"


AllKeys(cfg) == \A k \in Keys : HasOption(cfg, k)

\* a step of the program, not of the file system around it
ProgramStep == fsState' = fsState

\* C11: the candidates are scanned in the order ~/.raptic, ~/.config/raptic and
\* the first that exists is loaded and becomes the save target: ~/.raptic when
\* it exists (alone or with the other), ~/.config/raptic when only it exists.
C11_LoadPriority ==
    pc = "run" =>
        /\ files[Paths[1]].exists =>
             /\ config = Parse(files[Paths[1]].cfg)
             /\ config_path = "~/.raptic"
        /\ (~files[Paths[1]].exists /\ files[Paths[2]].exists) =>
             /\ config = Parse(files[Paths[2]].cfg)
             /\ config_path = "~/.config/raptic"

\* both candidates exist with different content and ~/.raptic was loaded
C11_Witness ==
    /\ pc = "run"
    /\ files[Paths[1]].exists /\ files[Paths[2]].exists
    /\ files[Paths[1]].cfg # files[Paths[2]].cfg
    /\ config = files[Paths[1]].cfg
    /\ config_path = "~/.raptic"

\* C12: with neither candidate present the loaded configuration is empty and
\* the save target is ~/.raptic; with that target and no ~/.config/raptic, the
\* first-run save creates ~/.raptic with the configuration and no step creates
\* ~/.config/raptic.
C12_MissingFileDefault ==
    /\ [](( /\ pc = "run"
            /\ ~files[Paths[1]].exists
            /\ ~files[Paths[2]].exists ) =>
              config = EmptyConfig /\ config_path = "~/.raptic")
    /\ [][ (config_path = "~/.raptic" /\ ~files[Paths[2]].exists) =>
             /\ ~files'[Paths[2]].exists
             /\ (pc # "first_written_msg" /\ pc' = "first_written_msg") =>
                  files'["~/.raptic"] = FileOf(config') ]_vars

\* the first-run save has created ~/.raptic and there is no ~/.config/raptic
C12_Witness ==
    /\ pc = "first_written_msg"
    /\ config_path = "~/.raptic"
    /\ files["~/.raptic"] = FileOf(config)
    /\ ~files["~/.config/raptic"].exists

\* C13: FirstRun never shows an input box for `fullscreen`, and the file the
\* first-run save has written holds fullscreen = yes, the schema default.
C13_DefaultApplied ==
    /\ pc \in {"first_input", "first_aborted_msg"} =>
         configuration_options[idx].name # "fullscreen"
    /\ (pc = "first_written_msg" /\ files[config_path].exists) =>
         /\ files[config_path].cfg.general["fullscreen"] = "yes"
         /\ configuration_options[3].default = "yes"

\* the first-run save has stored a typed server next to the default fullscreen
C13_Witness ==
    /\ pc = "first_written_msg"
    /\ files[config_path].exists
    /\ files[config_path].cfg.general["server"] = "bob"
    /\ files[config_path].cfg.general["fullscreen"] = "yes"

\* C14: reading the file a save has just written gives, for every key, the
\* value the saved configuration holds.
C14_RoundTrip ==
    (pc \in {"first_written_msg", "edit_saved_msg"} /\ files[config_path].exists) =>
        \A k \in Keys :
            Parse(files[config_path].cfg).general[k] = config.general[k]

\* C15: cancelling or escaping the edit menu asks the discard question when
\* the scratch copy is dirty and returns to MainMenu at once when it is not;
\* the question answered yes returns to MainMenu, answered no it returns to
\* the edit menu with the scratch copy as it was.
C15_BackOrEscape ==
    [][ /\ ( /\ pc = "edit_menu"
             /\ ProgramStep
             /\ reply'.dialog = "edit_menu"
             /\ reply'.code \in {"CANCEL", "ESC"} ) =>
               pc' = IF config_changed THEN "edit_yesno" ELSE "menu"
        /\ (pc = "edit_yesno" /\ pc' # pc) =>
               /\ pc' = IF reply'.code = "OK" THEN "menu" ELSE "edit_menu"
               /\ config_tmp' = config_tmp ]_vars

\* C16: a confirmed per-option prompt stores the entered value under exactly
\* that option of the scratch copy and sets the dirty flag; a cancelled prompt
\* changes neither the scratch copy nor the dirty flag.
C16_PromptEffect ==
    [][ (pc = "edit_prompt" /\ reply'.dialog = "prompt") =>
          IF reply'.code = "OK"
          THEN /\ config_tmp' = SetOption(config_tmp, OptionByLabel(reply.value).name,
                                          reply'.value)
               /\ config_changed'
          ELSE /\ config_tmp' = config_tmp
               /\ config_changed' = config_changed ]_vars

\* C17: a step of the program leaves both files as they are unless it is the
\* save that ends FirstRun or SAVE in ConfigEdit, and that step writes the
\* committed configuration to the save target; no file is ever removed.
C17_OnlySaveWrites ==
    [][ ProgramStep =>
          \/ files' = files
          \/ /\ pc' \in {"first_written_msg", "edit_saved_msg"}
             /\ pc' # pc
             /\ files' = [files EXCEPT ![config_path] = FileOf(config')] ]_vars

\* SAVE has written edited values to the save target
C17_Witness ==
    /\ pc = "edit_saved_msg"
    /\ config_changed
    /\ files[config_path] = FileOf(config)
    /\ config.general["user"] = "bob"

\* C18: a launched child runs only while the controller waits for it: with
\* MainMenu (or any other dialog) on screen there is no running child, so no
\* second child is started before the first has exited.
C18_OneChild ==
    /\ child # <<>> => pc = "child"
    /\ pc = "child" => child \in {<<"startx">>, Command(RdesktopPath, config)}

\* the desktop environment is running and the controller waits for it
C18_Witness ==
    /\ pc = "child"
    /\ child = <<"startx">>

\* C19: once FirstRun has run its loop, every state with MainMenu, ConfigEdit
\* or a child on screen has server, user and fullscreen in the committed
\* configuration, and in ConfigEdit in the scratch copy as well.
C19_FirstRunKeys ==
    (idx > 0 /\ pc \in {"menu", "child", "edit_saved_msg", "edit_not_writeable_msg"}
                       \cup EditPcs) =>
        /\ AllKeys(config)
        /\ pc \in EditPcs => AllKeys(config_tmp)

\* after FirstRun, an edited server was saved and MainMenu is shown again
C19_Witness ==
    /\ pc = "menu"
    /\ idx > NumOptions
    /\ config_changed
    /\ config.general["server"] = " bob"
    /\ AllKeys(config)

\* C20: SAVE gives the committed configuration the scratch values before the
\* write and whatever the write does; a failed write leaves the files as they
\* were; Start ThinClient builds its command from the committed configuration
\* in memory.
C20_SaveCommitsBeforeWrite ==
    [][ /\ SaveChosen =>
             /\ config' = Update(config, config_tmp)
             /\ AllKeys(config_tmp) => config'.general = config_tmp.general
             /\ OpenError # "" => files' = files
        /\ (pc = "menu" /\ pc' = "child" /\ child'[1] = "xinit") =>
             /\ child'[4] = config.general["user"]
             /\ child'[5] = config.general["server"] ]_vars

\* SAVE has failed with the caught error: the committed configuration holds
\* the edited values and the save target does not
C20_Witness ==
    /\ pc = "edit_not_writeable_msg"
    /\ config_changed
    /\ config.general = config_tmp.general
    /\ config.general["user"] = "bob"
    /\ files[config_path] # FileOf(config)

====
